---- MODULE Spec2Model ----
\* A model of the Maileroo Go SDK client (src/maileroo/client.go,
\* src/maileroo/attachment.go and the address model in src/unnamed/part_000).
\*
\* Strings are sequences of Unicode code points, so that the rune count
\* (len([]rune(s))) and the UTF-8 byte count (len(s)) of a string differ.
\* A nil pointer, nil map or nil slice is Nil; a set one is Some(v).
EXTENDS Integers, Sequences, FiniteSets, TLC

\* ------------------------------------------------------------------ bounds

\* A request of the model differs from the valid base request of its
\* operation in at most MaxDeviations fields.
MaxDeviations == 2

\* The number of calls a caller makes on the client, one after the other.
MaxCalls == 2

\* ------------------------------------------------------- program constants

MaxAssociativeMapKeyLength == 128
MaxAssociativeMapValueLength == 768
MaxSubjectLength == 255
ReferenceIDLength == 24
maxBulkMessages == 500
MaxPerPage == 100

\* ----------------------------------------------------------------- strings

Nil == <<>>
Some(v) == <<v>>
IsNil(p) == p = Nil
Deref(p) == p[1]

Rep(ch, n) == [i \in 1..n |-> ch]

\* The white space of unicode.IsSpace in the Latin-1 range.
IsSpace(ch) == ch \in {9, 10, 11, 12, 13, 32, 133, 160}

SetMin(S) == CHOOSE x \in S : \A y \in S : x <= y
SetMax(S) == CHOOSE x \in S : \A y \in S : x >= y

\* strings.TrimSpace: the string without its leading and trailing white space.
TrimSpace(s) ==
    LET keep == {i \in 1..Len(s) : ~IsSpace(s[i])}
    IN  IF keep = {} THEN <<>> ELSE SubSeq(s, SetMin(keep), SetMax(keep))

\* The number of bytes of the UTF-8 encoding of a code point.
Utf8Width(ch) == IF ch < 128 THEN 1 ELSE IF ch < 2048 THEN 2 ELSE IF ch < 65536 THEN 3 ELSE 4

\* len(s): the number of bytes of the UTF-8 encoding of the string.
Utf8Len(s) ==
    Cardinality({<<i, w>> \in (1..Len(s)) \X (1..4) : w <= Utf8Width(s[i])})

\* runeLen: len([]rune(s)), the number of code points.
runeLen(s) == Len(s)

\* ------------------------------------------------------------------ errors

OK == "ok"
ErrSubject == "subject must be a non-empty string with a maximum length of 255 characters"
ErrToRequired == "field to is required and must have at least one recipient"
ErrBodyRequired == "either html or plain body is required"
ErrBulkBodyRequired == "you must provide either html, plain, or template_id"
ErrBulkConflict == "template_id cannot be combined with html or plain"
ErrMessagesEmpty == "messages must be a non-empty array"
ErrMessagesTooMany == "messages cannot contain more than 500 items"
ErrMessageTo == "messages[i].to must have at least one recipient"
ErrRefWhitespace == "reference_id must not contain whitespace"
ErrRefFormat == "reference_id must be a 24-character hexadecimal string"
ErrTagsKeyEmpty == "tags keys must be non-empty strings"
ErrTagsKeyLong == "tags key must not exceed 128 characters"
ErrTagsValueType == "tags must be an associative map with string keys and values (string/number/bool)"
ErrTagsValueLong == "tags value must not exceed 768 characters"
ErrHeadersKeyEmpty == "headers keys must be non-empty strings"
ErrHeadersKeyLong == "headers key must not exceed 128 characters"
ErrHeadersValueType == "headers must be an associative map with string keys and values (string/number/bool)"
ErrHeadersValueLong == "headers value must not exceed 768 characters"
ErrTemplateDataKey == "template_data keys must be strings and non-empty"
ErrAttName == "attachment.file_name is required"
ErrAttContent == "attachment.content_base64 must be a non-empty base64 string"
ErrAttType == "attachment.content_type is required"
ErrPage == "page must be a positive integer (>= 1)"
ErrPerPage == "per_page must be a positive integer (>= 1)"
ErrPerPageMax == "per_page cannot be greater than 100"
ErrEncode == "failed to encode request body"
ErrNewRequest == "net/http: nil Context"
ErrHTTP == "HTTP request failed"
ErrRead == "failed to read API response"
ErrNotJSON == "the API response is not valid JSON"
ErrAPI == "the API returned an error"

\* --------------------------------------------------------------- validators

\* requireSubject
requireSubjectByBytes(s) ==
    IF TrimSpace(s) = <<>> THEN ErrSubject
    ELSE IF Utf8Len(s) > MaxSubjectLength THEN ErrSubject
    ELSE OK

requireSubject(s) ==
    IF TrimSpace(s) = <<>> THEN ErrSubject
    ELSE IF runeLen(s) > MaxSubjectLength THEN ErrSubject
    ELSE OK

HexChars == (48..57) \cup (97..102) \cup (65..70)

\* refIDRe.MatchString: ^[0-9a-fA-F]{24}$
refIDReMatch(s) == Len(s) = ReferenceIDLength /\ \A i \in 1..Len(s) : s[i] \in HexChars

\* validateReferenceID
validateReferenceID(s) ==
    IF s # TrimSpace(s) THEN ErrRefWhitespace
    ELSE IF ~refIDReMatch(s) THEN ErrRefFormat
    ELSE OK

\* ------------------------------------------------------------ address model

\* NewEmail: both arguments trimmed, no display name when it is blank.
NewEmail(address, displayName) ==
    [Address |-> TrimSpace(address),
     DisplayName |-> IF TrimSpace(displayName) # <<>> THEN Some(TrimSpace(displayName)) ELSE Nil]

\* A variant that leaves an empty display name out.
ToJSONOmitEmpty(e) ==
    IF IsNil(e.DisplayName) \/ Deref(e.DisplayName) = <<>>
    THEN "address" :> e.Address
    ELSE ("address" :> e.Address) @@ ("display_name" :> Deref(e.DisplayName))

\* EmailAddress.ToJSON: display_name is written when the pointer is set.
ToJSON(e) ==
    IF IsNil(e.DisplayName)
    THEN "address" :> e.Address
    ELSE ("address" :> e.Address) @@ ("display_name" :> Deref(e.DisplayName))

\* emailAddressesToJSON
emailAddressesToJSON(addrs) == [i \in 1..Len(addrs) |-> ToJSON(addrs[i])]

\* --------------------------------------------------------- associative maps

\* A value of an AssocMap or of template data is [t |-> its Go type, ...]:
\* a string carries v (code points), a bool v, an integer v, a float64 v and
\* nan (NaN has no JSON encoding); "map", "slice" and "func" carry nothing.
NumericTypes == {"int", "int32", "int64", "uint", "uint32", "uint64", "float32", "float64"}

\* isAcceptableAssocValue
isAcceptableAssocValue(v) == v.t \in {"string", "bool"} \cup NumericTypes

RECURSIVE DecimalLen(_)
DecimalLen(n) == IF n < 0 THEN 1 + DecimalLen(-n) ELSE IF n < 10 THEN 1 ELSE 1 + DecimalLen(n \div 10)

\* valLen: the rune count of a string, 4 or 5 for a bool, and the length of
\* fmt.Sprintf("%v", v) for a number ("NaN" for a float that is not a number).
valLen(v) ==
    IF v.t = "string" THEN runeLen(v.v)
    ELSE IF v.t = "bool" THEN (IF v.v THEN 4 ELSE 5)
    ELSE IF v.t \in {"float32", "float64"} /\ v.nan THEN 3
    ELSE IF v.t \in NumericTypes THEN DecimalLen(v.v)
    ELSE 0

\* fmt.Errorf("%s ...", label): the message with its label.
AssocErr(label, kind) ==
    IF label = "tags"
    THEN CASE kind = "key_empty" -> ErrTagsKeyEmpty
           [] kind = "key_long" -> ErrTagsKeyLong
           [] kind = "value_type" -> ErrTagsValueType
           [] kind = "value_long" -> ErrTagsValueLong
    ELSE CASE kind = "key_empty" -> ErrHeadersKeyEmpty
           [] kind = "key_long" -> ErrHeadersKeyLong
           [] kind = "value_type" -> ErrHeadersValueType
           [] kind = "value_long" -> ErrHeadersValueLong

\* The checks on one entry with the key compared to "" as it stands.
AssocEntryErrorNoTrim(k, v, label) ==
    IF k = <<>> THEN AssocErr(label, "key_empty")
    ELSE IF runeLen(k) > MaxAssociativeMapKeyLength THEN AssocErr(label, "key_long")
    ELSE IF ~isAcceptableAssocValue(v) THEN AssocErr(label, "value_type")
    ELSE IF valLen(v) > MaxAssociativeMapValueLength THEN AssocErr(label, "value_long")
    ELSE OK

\* The checks validateAssociativeMap makes on one entry, in the code's order.
AssocEntryError(k, v, label) ==
    IF TrimSpace(k) = <<>> THEN AssocErr(label, "key_empty")
    ELSE IF runeLen(k) > MaxAssociativeMapKeyLength THEN AssocErr(label, "key_long")
    ELSE IF ~isAcceptableAssocValue(v) THEN AssocErr(label, "value_type")
    ELSE IF valLen(v) > MaxAssociativeMapValueLength THEN AssocErr(label, "value_long")
    ELSE OK

\* validateAssociativeMap: the values it can return. Go ranges over a map in
\* an unspecified order and the first entry that fails decides the error.
validateAssociativeMap(m, label) ==
    LET bad == {AssocEntryError(k, m[k], label) : k \in DOMAIN m} \ {OK}
    IN  IF bad = {} THEN {OK} ELSE bad

\* validateTemplateData
validateTemplateData(m) ==
    IF \E k \in DOMAIN m : TrimSpace(k) = <<>> THEN ErrTemplateDataKey ELSE OK

\* ------------------------------------------------------------- attachments

\* The errors of the attachment constructors.
ErrCtorName == "file_name is required"
ErrCtorContent == "content must be a non-empty base64 string"
ErrCtorBase64 == "invalid base64 content provided"
ErrCtorStream == "stream must be a valid, non-nil reader"
ErrCtorStreamRead == "failed to read from stream"
ErrCtorPath == "path must be a readable file"
ErrCtorFileRead == "failed to read file"

\* What a constructor returns: an error and no attachment, or an attachment.
NoAttachment(e) == [err |-> e, att |-> Nil]
Built(name, ct, content, inline) ==
    [err |-> OK,
     att |-> Some([FileName |-> name, ContentType |-> ct, Content |-> content, Inline |-> inline])]

\* "application/octet-stream"
MimeOctetStream == <<97, 112, 112, 108, 105, 99, 97, 116, 105, 111, 110, 47, 111, 99, 116, 101, 116, 45, 115, 116, 114, 101, 97, 109>>
\* "text/plain; charset=utf-8"
MimeTextUtf8 == <<116, 101, 120, 116, 47, 112, 108, 97, 105, 110, 59, 32, 99, 104, 97, 114, 115, 101, 116, 61, 117, 116, 102, 45, 56>>
\* "text/plain"
MimeText == <<116, 101, 120, 116, 47, 112, 108, 97, 105, 110>>
\* "image/png"
MimePNG == <<105, 109, 97, 103, 101, 47, 112, 110, 103>>

\* The base64 alphabet of base64.StdEncoding: A-Z, a-z, 0-9, + and /.
B64Char(v) ==
    IF v < 26 THEN 65 + v
    ELSE IF v < 52 THEN 97 + (v - 26)
    ELSE IF v < 62 THEN 48 + (v - 52)
    ELSE IF v = 62 THEN 43 ELSE 47

B64Alphabet == {B64Char(v) : v \in 0..63}

B64Val(ch) == IF ch \in B64Alphabet THEN CHOOSE v \in 0..63 : B64Char(v) = ch ELSE 0

Pow(b, e) == IF e = 0 THEN 1 ELSE IF e = 1 THEN b ELSE IF e = 2 THEN b * b ELSE b * b * b

\* base64.StdEncoding.EncodeToString: four characters for every three
\* bytes, the last group padded with "=".
StdEncodeToString(b) ==
    LET n == Len(b)
        byte(i) == IF i <= n THEN b[i] ELSE 0
        group(k) == byte(3 * k + 1) * 65536 + byte(3 * k + 2) * 256 + byte(3 * k + 3)
    IN  [j \in 1..(4 * ((n + 2) \div 3)) |->
            LET k == (j - 1) \div 4
                p == (j - 1) % 4
            IN  IF p >= 2 /\ 3 * k + p > n THEN 61
                ELSE B64Char((group(k) \div Pow(64, 3 - p)) % 64)]

\* The text the decoder reads: it skips carriage returns and line feeds.
B64Text(s) == SelectSeq(s, LAMBDA ch : ch \notin {10, 13})

\* Whether base64.StdEncoding.DecodeString returns no error: whole groups of
\* four characters of the alphabet, the last one ending in at most two "=".
StdDecodeStringOK(s) ==
    LET t == B64Text(s)
        n == Len(t)
    IN  /\ n % 4 = 0
        /\ \A i \in 1..n : i <= n - 2 => t[i] \in B64Alphabet
        /\ n > 0 => \/ t[n - 1] \in B64Alphabet /\ t[n] \in B64Alphabet \cup {61}
                    \/ t[n - 1] = 61 /\ t[n] = 61

\* base64.StdEncoding.DecodeString: the bytes of a text that decodes.
StdDecodeString(s) ==
    LET t == B64Text(s)
        n == Len(t)
        pad == Cardinality({i \in 1..n : t[i] = 61})
        group(k) == B64Val(t[4 * k + 1]) * 262144 + B64Val(t[4 * k + 2]) * 4096
                    + B64Val(t[4 * k + 3]) * 64 + B64Val(t[4 * k + 4])
    IN  [i \in 1..((n \div 4) * 3 - pad) |->
            (group((i - 1) \div 3) \div Pow(256, 2 - ((i - 1) % 3))) % 256]

\* http.DetectContentType, without its signature table: text for a buffer
\* with no binary byte (the empty buffer included), else octet-stream.
DetectContentType(buf) ==
    IF \A i \in 1..Len(buf) : buf[i] \in {9, 10, 12, 13, 27} \cup (32..255)
    THEN MimeTextUtf8 ELSE MimeOctetStream

\* The text before the first ";" when there is one past the first place.
CutAtSemicolon(mt) ==
    LET semi == {i \in 1..Len(mt) : mt[i] = 59}
    IN  IF semi # {} /\ SetMin(semi) > 1
        THEN TrimSpace(SubSeq(mt, 1, SetMin(semi) - 1)) ELSE mt

\* detectMimeFromBuffer
detectMimeFromBuffer(buf) ==
    IF DetectContentType(buf) = <<>> THEN <<>> ELSE CutAtSemicolon(DetectContentType(buf))

\* filepath.Base of a path with no trailing separator: its last element.
Base(path) ==
    LET seps == {i \in 1..Len(path) : path[i] = 47}
    IN  IF seps = {} THEN path ELSE SubSeq(path, SetMax(seps) + 1, Len(path))

\* filepath.Ext: the suffix of the last element from its last dot on.
Ext(path) ==
    LET b == Base(path)
        dots == {i \in 1..Len(b) : b[i] = 46}
    IN  IF dots = {} THEN <<>> ELSE SubSeq(b, SetMax(dots), Len(b))

\* extToMime, the entries for the extensions of the files of the model.
extToMime == (<<112, 110, 103>> :> MimePNG) @@ (<<116, 120, 116>> :> MimeText)

\* detectMimeFromExtension, for lower-case extensions.
detectMimeFromExtension(path) ==
    LET ext == IF Ext(path) = <<>> THEN <<>> ELSE SubSeq(Ext(path), 2, Len(Ext(path)))
    IN  IF ext = <<>> THEN <<>>
        ELSE IF ext \in DOMAIN extToMime THEN extToMime[ext] ELSE <<>>

\* detectMimeFromPath: the table of the package; mime.TypeByExtension knows
\* none of the other extensions of the model.
detectMimeFromPath(path) == detectMimeFromExtension(path)

\* NewAttachment
NewAttachment(fileName, contentB64, contentType, inline) ==
    IF TrimSpace(fileName) = <<>> THEN NoAttachment(ErrCtorName)
    ELSE IF TrimSpace(contentB64) = <<>> THEN NoAttachment(ErrCtorContent)
    ELSE IF ~StdDecodeStringOK(contentB64) THEN NoAttachment(ErrCtorBase64)
    ELSE Built(fileName,
               IF TrimSpace(contentType) = <<>> THEN MimeOctetStream ELSE contentType,
               contentB64, inline)

\* AttachmentFromContent
AttachmentFromContent(fileName, content, contentType, inline) ==
    IF TrimSpace(fileName) = <<>> THEN NoAttachment(ErrCtorName)
    ELSE Built(fileName,
               IF TrimSpace(contentType) # <<>> THEN contentType
               ELSE IF detectMimeFromBuffer(content) # <<>> THEN detectMimeFromBuffer(content)
               ELSE MimeOctetStream,
               StdEncodeToString(content), inline)

\* A variant that stores the content in its canonical encoding.
AttachmentFromBase64Reencoded(fileName, contentB64, contentType, inline) ==
    IF ~StdDecodeStringOK(contentB64) THEN NoAttachment(ErrCtorBase64)
    ELSE NewAttachment(fileName, StdEncodeToString(StdDecodeString(contentB64)),
                       IF TrimSpace(contentType) # <<>> THEN contentType ELSE MimeOctetStream,
                       inline)

\* AttachmentFromBase64Content
AttachmentFromBase64Content(fileName, contentB64, contentType, inline) ==
    IF ~StdDecodeStringOK(contentB64) THEN NoAttachment(ErrCtorBase64)
    ELSE NewAttachment(fileName, contentB64,
                       IF TrimSpace(contentType) # <<>> THEN contentType
                       ELSE IF detectMimeFromBuffer(StdDecodeString(contentB64)) # <<>>
                            THEN detectMimeFromBuffer(StdDecodeString(contentB64))
                       ELSE MimeOctetStream,
                       inline)

\* AttachmentFromStream: a reader r is [kind |-> "nil"], [kind |-> "error"]
\* (io.ReadAll fails) or [kind |-> "data", data |-> its bytes].
AttachmentFromStream(fileName, r, contentType, inline) ==
    IF r.kind = "nil" THEN NoAttachment(ErrCtorStream)
    ELSE IF r.kind = "error" THEN NoAttachment(ErrCtorStreamRead)
    ELSE AttachmentFromContent(fileName, r.data, contentType, inline)

\* AttachmentFromFile: fs maps a path to what is there, [kind |-> "none"],
\* [kind |-> "dir"], [kind |-> "unreadable"] or [kind |-> "file", data |->
\* its bytes].
AttachmentFromFile(fs, path, contentType, inline) ==
    IF TrimSpace(path) = <<>> THEN NoAttachment(ErrCtorPath)
    ELSE IF fs[path].kind \in {"none", "dir"} THEN NoAttachment(ErrCtorPath)
    ELSE IF fs[path].kind = "unreadable" THEN NoAttachment(ErrCtorFileRead)
    ELSE Built(Base(path),
               IF TrimSpace(contentType) # <<>> THEN contentType
               ELSE IF detectMimeFromPath(path) # <<>> THEN detectMimeFromPath(path)
               ELSE IF detectMimeFromBuffer(fs[path].data) # <<>>
                    THEN detectMimeFromBuffer(fs[path].data)
               ELSE MimeOctetStream,
               StdEncodeToString(fs[path].data), inline)

\* Attachment.validate
validate(a) ==
    IF TrimSpace(a.FileName) = <<>> THEN ErrAttName
    ELSE IF TrimSpace(a.Content) = <<>> THEN ErrAttContent
    ELSE IF TrimSpace(a.ContentType) = <<>> THEN ErrAttType
    ELSE OK

\* The loop over the attachments: the error of the first invalid one.
validateAttachments(atts) ==
    LET bad == {i \in 1..Len(atts) : validate(atts[i]) # OK}
    IN  IF bad = {} THEN OK ELSE validate(atts[SetMin(bad)])

\* ------------------------------------------------------------ reference ids

\* A source of randomness is [secure |-> whether crypto/rand.Read succeeds,
\* seed |-> what the bytes are]; n counts the ids drawn from it in one call.
RandByte(seed, n, i) == (seed + 37 * n + 101 * i * seed) % 256

HexDigit(d) == IF d < 10 THEN 48 + d ELSE 87 + d

\* hex.EncodeToString: two lower-case digits per byte.
EncodeToString(b) ==
    [i \in 1..(2 * Len(b)) |->
        IF i % 2 = 1 THEN HexDigit(b[(i + 1) \div 2] \div 16) ELSE HexDigit(b[i \div 2] % 16)]

GetReferenceIDLong(rnd, n) ==
    EncodeToString([i \in 1..ReferenceIDLength |-> RandByte(rnd.seed, n, i)])

\* Client.GetReferenceID: 12 bytes of crypto/rand, or of math/rand when
\* crypto/rand fails, hex-encoded.
GetReferenceID(rnd, n) ==
    LET byteLen == ReferenceIDLength \div 2
        b == IF rnd.secure
             THEN [i \in 1..byteLen |-> RandByte(rnd.seed, n, i)]
             ELSE [i \in 1..byteLen |-> RandByte(rnd.seed + 1, n + 1, i) % 256]
    IN  EncodeToString(b)

\* ---------------------------------------------------------- request builder

\* What a step of a handler yields: an error (OK when none) and the payload.
Fail(e) == [err |-> e, payload |-> Nil]

OptKey(cond, key, val) == IF cond THEN key :> val ELSE <<>>

AssocErrs(m, label) == IF IsNil(m) THEN {OK} ELSE validateAssociativeMap(Deref(m), label)

\* The BasePayload literal of SendBasicEmail and SendTemplatedEmail.
BasePayload(data) ==
    [Subject |-> data.Subject, From |-> data.From, To |-> data.To, Cc |-> data.Cc,
     Bcc |-> data.Bcc, ReplyTo |-> data.ReplyTo, Tracking |-> data.Tracking,
     Tags |-> data.Tags, Headers |-> data.Headers, Attachments |-> data.Attachments,
     ScheduledAt |-> data.ScheduledAt, ReferenceID |-> data.ReferenceID]

\* Client.buildBasePayload: the (error, payload) pairs it can return.
buildBasePayload(payload, rnd) ==
    LET tagErrs == AssocErrs(payload.Tags, "tags")
        hdrErrs == AssocErrs(payload.Headers, "headers")
        attErr == validateAttachments(payload.Attachments)
        refErr == IF IsNil(payload.ReferenceID) THEN OK
                  ELSE validateReferenceID(Deref(payload.ReferenceID))
        result ==
            ("subject" :> payload.Subject)
            @@ ("from" :> ToJSON(payload.From))
            @@ ("to" :> emailAddressesToJSON(payload.To))
            @@ OptKey(Len(payload.Cc) > 0, "cc", emailAddressesToJSON(payload.Cc))
            @@ OptKey(Len(payload.Bcc) > 0, "bcc", emailAddressesToJSON(payload.Bcc))
            @@ OptKey(Len(payload.ReplyTo) > 0, "reply_to", emailAddressesToJSON(payload.ReplyTo))
            @@ OptKey(~IsNil(payload.Tracking), "tracking", Deref(payload.Tracking))
            @@ OptKey(~IsNil(payload.Tags), "tags", Deref(payload.Tags))
            @@ OptKey(~IsNil(payload.Headers), "headers", Deref(payload.Headers))
            @@ OptKey(Len(payload.Attachments) > 0, "attachments", payload.Attachments)
            @@ OptKey(~IsNil(payload.ScheduledAt), "scheduled_at", Deref(payload.ScheduledAt))
            @@ ("reference_id" :> IF IsNil(payload.ReferenceID)
                                  THEN GetReferenceID(rnd, 0)
                                  ELSE Deref(payload.ReferenceID))
    IN  IF requireSubject(payload.Subject) # OK THEN {Fail(requireSubject(payload.Subject))}
        ELSE IF Len(payload.To) = 0 THEN {Fail(ErrToRequired)}
        ELSE IF tagErrs # {OK} THEN {Fail(e) : e \in tagErrs}
        ELSE IF hdrErrs # {OK} THEN {Fail(e) : e \in hdrErrs}
        ELSE IF attErr # OK THEN {Fail(attErr)}
        ELSE IF refErr # OK THEN {Fail(refErr)}
        ELSE {[err |-> OK, payload |-> Some(result)]}

\* The checks normalizeBulkMessages makes on one message, in the code's order.
BulkMessageError(m) ==
    IF Len(m.To) = 0 THEN ErrMessageTo
    ELSE IF ~IsNil(m.ReferenceID) /\ validateReferenceID(Deref(m.ReferenceID)) # OK
         THEN validateReferenceID(Deref(m.ReferenceID))
    ELSE IF ~IsNil(m.TemplateData) /\ validateTemplateData(Deref(m.TemplateData)) # OK
         THEN validateTemplateData(Deref(m.TemplateData))
    ELSE OK

\* The item normalizeBulkMessages builds for message i.
BulkItem(m, rnd, i) ==
    ("from" :> ToJSON(m.From))
    @@ ("to" :> emailAddressesToJSON(m.To))
    @@ OptKey(Len(m.Cc) > 0, "cc", emailAddressesToJSON(m.Cc))
    @@ OptKey(Len(m.Bcc) > 0, "bcc", emailAddressesToJSON(m.Bcc))
    @@ OptKey(Len(m.ReplyTo) > 0, "reply_to", emailAddressesToJSON(m.ReplyTo))
    @@ ("reference_id" :> IF IsNil(m.ReferenceID) THEN GetReferenceID(rnd, i)
                          ELSE Deref(m.ReferenceID))
    @@ OptKey(~IsNil(m.TemplateData), "template_data", Deref(m.TemplateData))

\* A variant that leaves the invalid messages out and sends the others.
normalizeBulkMessagesSkipInvalid(in, rnd) ==
    LET good == SelectSeq(in, LAMBDA m : BulkMessageError(m) = OK)
    IN  [err |-> OK, index |-> -1, out |-> [i \in 1..Len(good) |-> BulkItem(good[i], rnd, i)]]

\* Client.normalizeBulkMessages: the error of the first invalid message
\* (index is its 0-based position), or the items in the order of the input.
normalizeBulkMessages(in, rnd) ==
    LET bad == {i \in 1..Len(in) : BulkMessageError(in[i]) # OK}
    IN  IF bad # {}
        THEN [err |-> BulkMessageError(in[SetMin(bad)]), index |-> SetMin(bad) - 1, out |-> Nil]
        ELSE [err |-> OK, index |-> -1, out |-> [i \in 1..Len(in) |-> BulkItem(in[i], rnd, i)]]

\* ---------------------------------------------------------- transport client

\* What a handler has done when it returns early or blocks on the network:
\* its error (OK when the request is in flight), the index of the bulk
\* message that failed (-1 when none), the request handed to http.Client.Do
\* and the number of times Do was called.
Outcome(e, i, r, n) == [err |-> e, index |-> i, req |-> r, sent |-> n]

Failed(e) == Outcome(e, -1, Nil, 0)

\* Whether json.Marshal encodes a value of a map: a NaN has no JSON form and
\* a func is an unsupported type.
EncodableValue(v) ==
    /\ v.t # "func"
    /\ v.t \in {"float32", "float64"} => ~v.nan

EncodableMap(m) == \A k \in DOMAIN m : EncodableValue(m[k])

\* Whether json.Marshal encodes the body: every map value must be encodable
\* and time.Time.MarshalJSON needs a year in 0..9999.
MarshalOK(body) ==
    /\ "tags" \in DOMAIN body => EncodableMap(body["tags"])
    /\ "headers" \in DOMAIN body => EncodableMap(body["headers"])
    /\ "template_data" \in DOMAIN body => EncodableMap(body["template_data"])
    /\ "scheduled_at" \in DOMAIN body => body["scheduled_at"].year \in 0..9999
    /\ "messages" \in DOMAIN body =>
          \A i \in 1..Len(body["messages"]) :
              "template_data" \in DOMAIN body["messages"][i]
                  => EncodableMap(body["messages"][i]["template_data"])

\* Client.sendRequest up to the call of http.Client.Do: the body is encoded,
\* the request built with its three headers, and handed to the transport.
sendRequest(cl, ctx, method, endpoint, body) ==
    IF method # "GET" /\ ~IsNil(body) /\ ~MarshalOK(Deref(body)) THEN Failed(ErrEncode)
    ELSE IF ctx = "nil" THEN Failed(ErrNewRequest)
    ELSE Outcome(OK, -1,
                 Some([method |-> method,
                       endpoint |-> endpoint,
                       ContentType |-> "application/json",
                       Authorization |-> <<"Bearer ", cl.APIKey>>,
                       UserAgent |-> "maileroo-go-sdk/1.0",
                       body |-> IF method = "GET" THEN Nil ELSE body]),
                 1)

\* A variant that takes a request without a body.
BasicBodyErrorNone(data) == OK

\* The body check of SendBasicEmail.
BasicBodyError(data) ==
    IF IsNil(data.HTML) /\ IsNil(data.Plain) THEN ErrBodyRequired ELSE OK

\* Client.SendBasicEmail up to the network call.
SendBasicEmailCall(cl, data, rnd) ==
    {IF b.err # OK THEN Failed(b.err)
     ELSE IF BasicBodyError(data) # OK THEN Failed(BasicBodyError(data))
     ELSE sendRequest(cl, data.Ctx, "POST", <<"emails">>,
                      Some(("html" :> data.HTML) @@ ("plain" :> data.Plain) @@ Deref(b.payload)))
     : b \in buildBasePayload(BasePayload(data), rnd)}

\* Client.SendTemplatedEmail up to the network call.
SendTemplatedEmailCall(cl, data, rnd) ==
    {IF b.err # OK THEN Failed(b.err)
     ELSE IF ~IsNil(data.TemplateData) /\ validateTemplateData(Deref(data.TemplateData)) # OK
          THEN Failed(validateTemplateData(Deref(data.TemplateData)))
     ELSE sendRequest(cl, data.Ctx, "POST", <<"emails/template">>,
                      Some(("template_id" :> data.TemplateID)
                           @@ OptKey(~IsNil(data.TemplateData), "template_data",
                                     Deref(data.TemplateData))
                           @@ Deref(b.payload)))
     : b \in buildBasePayload(BasePayload(data), rnd)}

\* A variant that lets a template id stand beside a body.
BulkBodyModeErrorNoConflict(data) ==
    IF (IsNil(data.HTML) /\ IsNil(data.Plain)) /\ IsNil(data.TemplateID)
    THEN ErrBulkBodyRequired ELSE OK

\* The body-mode checks of SendBulkEmails.
BulkBodyModeError(data) ==
    LET hasHTML == ~IsNil(data.HTML)
        hasPlain == ~IsNil(data.Plain)
        hasTemplateID == ~IsNil(data.TemplateID)
    IN  IF (~hasHTML /\ ~hasPlain) /\ ~hasTemplateID THEN ErrBulkBodyRequired
        ELSE IF ~IsNil(data.TemplateID) /\ (hasHTML \/ hasPlain) THEN ErrBulkConflict
        ELSE OK

\* A variant that is off by one at the upper end.
BulkCountErrorOffByOne(messages) ==
    IF Len(messages) = 0 THEN ErrMessagesEmpty
    ELSE IF Len(messages) >= maxBulkMessages THEN ErrMessagesTooMany
    ELSE OK

\* The message-count checks of SendBulkEmails.
BulkCountError(messages) ==
    IF Len(messages) = 0 THEN ErrMessagesEmpty
    ELSE IF Len(messages) > maxBulkMessages THEN ErrMessagesTooMany
    ELSE OK

\* Client.SendBulkEmails up to the network call.
SendBulkEmailsCall(cl, data, rnd) ==
    LET hasHTML == ~IsNil(data.HTML)
        hasPlain == ~IsNil(data.Plain)
        hasTemplateID == ~IsNil(data.TemplateID)
        tagErrs == AssocErrs(data.Tags, "tags")
        hdrErrs == AssocErrs(data.Headers, "headers")
        attErr == validateAttachments(data.Attachments)
        msgs == normalizeBulkMessages(data.Messages, rnd)
        payload ==
            ("subject" :> data.Subject)
            @@ OptKey(hasHTML, "html", data.HTML)
            @@ OptKey(hasPlain, "plain", data.Plain)
            @@ OptKey(hasTemplateID, "template_id", data.TemplateID)
            @@ OptKey(~IsNil(data.Tracking), "tracking", Deref(data.Tracking))
            @@ OptKey(~IsNil(data.Tags), "tags", Deref(data.Tags))
            @@ OptKey(~IsNil(data.Headers), "headers", Deref(data.Headers))
            @@ OptKey(Len(data.Attachments) > 0, "attachments", data.Attachments)
            @@ ("messages" :> msgs.out)
    IN  IF requireSubject(data.Subject) # OK THEN {Failed(requireSubject(data.Subject))}
        ELSE IF BulkBodyModeError(data) # OK THEN {Failed(BulkBodyModeError(data))}
        ELSE IF BulkCountError(data.Messages) # OK THEN {Failed(BulkCountError(data.Messages))}
        ELSE IF tagErrs # {OK} THEN {Failed(e) : e \in tagErrs}
        ELSE IF hdrErrs # {OK} THEN {Failed(e) : e \in hdrErrs}
        ELSE IF attErr # OK THEN {Failed(attErr)}
        ELSE IF msgs.err # OK THEN {Outcome(msgs.err, msgs.index, Nil, 0)}
        ELSE {sendRequest(cl, data.Ctx, "POST", <<"emails/bulk">>, Some(payload))}

\* A variant that hands the request to the transport before it looks at the id.
DeleteScheduledEmailSendFirst(cl, data, rnd) ==
    LET r == sendRequest(cl, data.Ctx, "DELETE", <<"emails/scheduled/", data.ReferenceID>>, Nil)
    IN  IF validateReferenceID(data.ReferenceID) # OK /\ r.err = OK
        THEN {[r EXCEPT !.err = validateReferenceID(data.ReferenceID)]}
        ELSE {r}

\* Client.DeleteScheduledEmail up to the network call.
DeleteScheduledEmailCall(cl, data, rnd) ==
    IF validateReferenceID(data.ReferenceID) # OK
    THEN {Failed(validateReferenceID(data.ReferenceID))}
    ELSE {sendRequest(cl, data.Ctx, "DELETE", <<"emails/scheduled/", data.ReferenceID>>, Nil)}

\* fmt.Sprintf("%d", n): the decimal digits of n, with its sign.
RECURSIVE Itoa(_)
Itoa(n) ==
    IF n < 0 THEN <<45>> \o Itoa(-n)
    ELSE IF n < 10 THEN <<48 + n>>
    ELSE Itoa(n \div 10) \o <<48 + (n % 10)>>

\* url.Values.Encode of page and per_page: "page=..&per_page=..", the keys
\* sorted; digits need no escaping.
QueryEncode(page, perPage) ==
    <<112, 97, 103, 101, 61>> \o Itoa(page)
    \o <<38, 112, 101, 114, 95, 112, 97, 103, 101, 61>> \o Itoa(perPage)

\* A variant without the lower bound of per_page.
GetScheduledEmailsNoLowerBound(cl, data, rnd) ==
    IF data.page < 1 THEN {Failed(ErrPage)}
    ELSE IF data.perPage > MaxPerPage THEN {Failed(ErrPerPageMax)}
    ELSE {sendRequest(cl, data.Ctx, "GET",
                      <<"emails/scheduled?", QueryEncode(data.page, data.perPage)>>, Nil)}

\* Client.GetScheduledEmails up to the network call.
GetScheduledEmailsCall(cl, data, rnd) ==
    IF data.page < 1 THEN {Failed(ErrPage)}
    ELSE IF data.perPage < 1 THEN {Failed(ErrPerPage)}
    ELSE IF data.perPage > MaxPerPage THEN {Failed(ErrPerPageMax)}
    ELSE {sendRequest(cl, data.Ctx, "GET",
                      <<"emails/scheduled?", QueryEncode(data.page, data.perPage)>>, Nil)}

Ops == {"SendBasicEmail", "SendTemplatedEmail", "SendBulkEmails",
        "DeleteScheduledEmail", "GetScheduledEmails"}

SendOps == {"SendBasicEmail", "SendTemplatedEmail", "SendBulkEmails"}

\* The handler of operation o up to the network call.
Call(o, cl, data, rnd) ==
    CASE o = "SendBasicEmail" -> SendBasicEmailCall(cl, data, rnd)
      [] o = "SendTemplatedEmail" -> SendTemplatedEmailCall(cl, data, rnd)
      [] o = "SendBulkEmails" -> SendBulkEmailsCall(cl, data, rnd)
      [] o = "DeleteScheduledEmail" -> DeleteScheduledEmailCall(cl, data, rnd)
      [] o = "GetScheduledEmails" -> GetScheduledEmailsCall(cl, data, rnd)

\* ---------------------------------------------------------------- responses

\* What a handler returns: the error, the index of the bulk message it is
\* about (-1 when none), the provider's message in it, and the data.
Result(e, i, msg, d) == [err |-> e, index |-> i, message |-> msg, data |-> d]

\* The zero value a handler returns with an error: "" for a reference id, a
\* nil slice for the bulk ids, a nil pointer for the listing.
ZeroData(o) == IF o \in {"SendBasicEmail", "SendTemplatedEmail"} THEN <<>> ELSE Nil

\* A variant that takes every success:true envelope.
AcceptedOnSuccess(o, resp) == resp.success

\* Whether the decoded envelope makes the handler return its data.
Accepted(o, resp) ==
    IF o = "GetScheduledEmails" THEN resp.success /\ ~IsNil(resp.data) ELSE resp.success

\* A variant that takes a success:true envelope only when its data is set.
ReturnChecked(o, resp) ==
    IF resp.kind = "transport_error" THEN Result(ErrHTTP, -1, "", ZeroData(o))
    ELSE IF resp.kind = "read_error" THEN Result(ErrRead, -1, "", ZeroData(o))
    ELSE IF resp.kind = "not_json" THEN Result(ErrNotJSON, -1, "", ZeroData(o))
    ELSE IF Accepted(o, resp) /\ (o = "DeleteScheduledEmail" \/ resp.data # <<>>)
         THEN Result(OK, -1, "", IF o = "DeleteScheduledEmail" THEN Nil ELSE resp.data)
    ELSE Result(ErrAPI, -1, IF resp.message = "" THEN "Unknown" ELSE resp.message, ZeroData(o))

\* The handler of operation o from the return of http.Client.Do on: the
\* errors of sendRequest, then the envelope.
Return(o, resp) ==
    IF resp.kind = "transport_error" THEN Result(ErrHTTP, -1, "", ZeroData(o))
    ELSE IF resp.kind = "read_error" THEN Result(ErrRead, -1, "", ZeroData(o))
    ELSE IF resp.kind = "not_json" THEN Result(ErrNotJSON, -1, "", ZeroData(o))
    ELSE IF Accepted(o, resp)
         THEN Result(OK, -1, "", IF o = "DeleteScheduledEmail" THEN Nil ELSE resp.data)
    ELSE Result(ErrAPI, -1, IF resp.message = "" THEN "Unknown" ELSE resp.message, ZeroData(o))

\* NewClient
NewClient(apiKey, timeoutSeconds) ==
    IF TrimSpace(apiKey) = <<>> THEN [err |-> "API key must be a non-empty string", client |-> Nil]
    ELSE IF timeoutSeconds <= 0 THEN [err |-> "timeout must be a positive integer", client |-> Nil]
    ELSE [err |-> OK, client |-> Some([APIKey |-> apiKey, Timeout |-> timeoutSeconds])]

\* ------------------------------------------------------------------- inputs

Str_Hi == <<72, 105>>
Str_HTML == <<60, 112, 62>>
Str_Plain == <<120>>
Str_Key == <<116, 97, 103, 49>>
Str_Value == <<118, 97, 108, 117, 101, 49>>

AddrA == [Address |-> <<97, 64, 98>>, DisplayName |-> Nil]
AddrB == [Address |-> <<99, 64, 100>>, DisplayName |-> Some(<<66, 111, 98>>)]
\* NewEmail(" e@f ", " "): the constructor drops the blank display name.
AddrNew == NewEmail(<<32, 101, 64, 102, 32>>, <<32>>)
\* NewEmail(" g@h", " Al "): the constructor trims the display name.
AddrNamed == NewEmail(<<32, 103, 64, 104>>, <<32, 65, 108, 32>>)
\* EmailAddress{Address: "i@j", DisplayName: &""}, built without NewEmail.
AddrEmptyName == [Address |-> <<105, 64, 106>>, DisplayName |-> Some(<<>>)]

\* "0123456789abcdefABCDEF67"
RefValid == [i \in 1..24 |-> IF i <= 10 THEN 47 + i ELSE IF i <= 16 THEN 86 + i
                             ELSE IF i <= 22 THEN 48 + i ELSE 31 + i]
RefLeadingSpace == <<32>> \o RefValid
RefTrailingLF == RefValid \o <<10>>
RefShort == SubSeq(RefValid, 1, 23)
RefLong == RefValid \o <<48>>
RefNonHex == [RefValid EXCEPT ![5] = 103]
\* The reference id of the provider's answer.
RefServer == [i \in 1..24 |-> 102]
RefServer2 == [i \in 1..24 |-> 101]

StrVal(s) == [t |-> "string", v |-> s]
NaNVal == [t |-> "float64", v |-> 0, nan |-> TRUE]
MapVal == [t |-> "map"]
FuncVal == [t |-> "func"]

MapOK == Str_Key :> StrVal(Str_Value)
MapBlankKey == <<32>> :> StrVal(Str_Value)
MapNaN == Str_Key :> NaNVal
MapNested == Str_Key :> MapVal
MapTwoBad == (<<>> :> StrVal(Str_Value)) @@ (Str_Key :> MapVal)
MapFunc == Str_Key :> FuncVal

AttOK == [FileName |-> <<97, 46, 116, 120, 116>>, ContentType |-> <<116, 47, 112>>,
          Content |-> <<97, 71, 107, 61>>, Inline |-> FALSE]
AttNoName == [AttOK EXCEPT !.FileName = <<32>>]
AttNoContent == [AttOK EXCEPT !.Content = <<>>]
\* "!!" is no base64 text.
AttNotBase64 == [AttOK EXCEPT !.Content = <<33, 33>>]

TimeOK == [year |-> 2026]
TimeFar == [year |-> 10000]

Msg == [From |-> AddrA, To |-> <<AddrB>>, Cc |-> <<>>, Bcc |-> <<>>, ReplyTo |-> <<>>,
        ReferenceID |-> Nil, TemplateData |-> Nil]
MsgRef == [Msg EXCEPT !.To = <<AddrA>>, !.Cc = <<AddrB>>, !.ReferenceID = Some(RefValid),
                      !.TemplateData = Some(MapNested)]
MsgNoTo == [Msg EXCEPT !.To = <<>>]
MsgBadRef == [Msg EXCEPT !.ReferenceID = Some(RefShort)]
MsgBadData == [Msg EXCEPT !.TemplateData = Some(MapBlankKey)]
MsgFunc == [Msg EXCEPT !.TemplateData = Some(MapFunc)]

\* n messages, alternately Msg and MsgRef.
Alternating(n) == [i \in 1..n |-> IF i % 2 = 1 THEN Msg ELSE MsgRef]

AddressAlts(f) == {<<f, <<AddrB>>>>}

SharedAlts ==
    {<<"Ctx", "nil">>}
    \cup {<<"Subject", x>> : x \in {<<>>, <<32, 9>>, Rep(233, MaxSubjectLength),
                                    Rep(97, MaxSubjectLength + 1)}}
    \cup {<<"Tracking", Some(FALSE)>>}
    \cup {<<"Tags", Some(x)>> : x \in {MapOK, MapBlankKey, MapNaN, MapTwoBad}}
    \cup {<<"Headers", Some(x)>> : x \in {MapOK, MapNested}}
    \cup {<<"Attachments", x>> : x \in {<<AttOK>>, <<AttOK, AttNoName>>, <<AttNoContent>>,
                                        <<AttNotBase64>>}}

SingleAlts ==
    SharedAlts
    \cup {<<"To", x>> : x \in {<<>>, <<AddrA, AddrB>>}}
    \cup AddressAlts("Cc") \cup AddressAlts("Bcc") \cup AddressAlts("ReplyTo")
    \cup {<<"ScheduledAt", Some(x)>> : x \in {TimeOK, TimeFar}}
    \cup {<<"ReferenceID", Some(x)>> : x \in {RefValid, RefLeadingSpace, RefShort, RefNonHex}}

BasicBase ==
    [Ctx |-> "background", From |-> AddrA, To |-> <<AddrA>>, Cc |-> <<>>, Bcc |-> <<>>,
     ReplyTo |-> <<>>, Subject |-> Str_Hi, HTML |-> Some(Str_HTML), Plain |-> Nil,
     Tracking |-> Nil, Tags |-> Nil, Headers |-> Nil, Attachments |-> <<>>,
     ScheduledAt |-> Nil, ReferenceID |-> Nil]

BasicAlts ==
    SingleAlts
    \cup {<<"HTML", Nil>>, <<"Plain", Some(Str_Plain)>>}
    \cup {<<"To", <<AddrNew, AddrNamed, AddrEmptyName>>>>}

TemplatedBase ==
    [Ctx |-> "background", From |-> AddrA, To |-> <<AddrA>>, Cc |-> <<>>, Bcc |-> <<>>,
     ReplyTo |-> <<>>, Subject |-> Str_Hi, TemplateID |-> 2549, TemplateData |-> Nil,
     Tracking |-> Nil, Tags |-> Nil, Headers |-> Nil, Attachments |-> <<>>,
     ScheduledAt |-> Nil, ReferenceID |-> Nil]

\* TemplateID 0 is the zero value of the field: the caller set none.
TemplatedAlts ==
    SingleAlts
    \cup {<<"TemplateID", 0>>}
    \cup {<<"TemplateData", Some(x)>> : x \in {MapOK, MapNested, MapBlankKey, MapFunc}}

BulkBase ==
    [Ctx |-> "background", Subject |-> Str_Hi, HTML |-> Some(Str_HTML), Plain |-> Nil,
     TemplateID |-> Nil, Tracking |-> Nil, Tags |-> Nil, Headers |-> Nil,
     Attachments |-> <<>>, Messages |-> <<Msg>>]

BulkAlts ==
    SharedAlts
    \cup {<<"HTML", Nil>>, <<"Plain", Some(Str_Plain)>>, <<"TemplateID", Some(2549)>>}
    \cup {<<"Messages", x>> : x \in {<<>>, <<MsgRef, Msg>>, <<Msg, MsgNoTo, MsgBadRef>>,
                                     <<MsgRef, MsgBadRef>>, <<Msg, MsgBadData>>,
                                     <<Msg, MsgFunc>>, Alternating(maxBulkMessages),
                                     Alternating(maxBulkMessages + 1)}}

DeleteBase == [Ctx |-> "background", ReferenceID |-> RefValid]

DeleteAlts ==
    {<<"Ctx", "nil">>}
    \cup {<<"ReferenceID", x>> : x \in {<<>>, RefLeadingSpace, RefTrailingLF, RefShort,
                                        RefLong, RefNonHex}}

GetBase == [Ctx |-> "background", page |-> 1, perPage |-> 10]

GetAlts ==
    {<<"Ctx", "nil">>}
    \cup {<<"page", x>> : x \in {-1, 0, 2}}
    \cup {<<"perPage", x>> : x \in {-1, 0, 1, MaxPerPage, MaxPerPage + 1}}

\* The sets of at most k alternatives, no two of them of the same field.
RECURSIVE Devs(_, _)
Devs(alts, k) ==
    IF k = 0 THEN {{}}
    ELSE LET less == Devs(alts, k - 1)
         IN  less \cup UNION {{D \cup {a} : a \in {x \in alts : \A d \in D : d[1] # x[1]}} :
                              D \in less}

ApplyDevs(base, D) ==
    [f \in DOMAIN base |->
        IF \E d \in D : d[1] = f THEN (CHOOSE d \in D : d[1] = f)[2] ELSE base[f]]

Requests(base, alts, k) == {ApplyDevs(base, D) : D \in Devs(alts, k)}

BasicRequests == Requests(BasicBase, BasicAlts, MaxDeviations)
TemplatedRequests == Requests(TemplatedBase, TemplatedAlts, MaxDeviations)
BulkRequests == Requests(BulkBase, BulkAlts, MaxDeviations)
DeleteRequests == Requests(DeleteBase, DeleteAlts, MaxDeviations)
GetRequests == Requests(GetBase, GetAlts, MaxDeviations)

\* The arguments of the calls of one caller working alone.
AllRequests ==
    [o \in {"SendBasicEmail", "SendTemplatedEmail", "SendBulkEmails", "DeleteScheduledEmail",
            "GetScheduledEmails"} |->
        CASE o = "SendBasicEmail" -> BasicRequests
          [] o = "SendTemplatedEmail" -> TemplatedRequests
          [] o = "SendBulkEmails" -> BulkRequests
          [] o = "DeleteScheduledEmail" -> DeleteRequests
          [] o = "GetScheduledEmails" -> GetRequests]

OneDev(base, alts) == {base} \cup {ApplyDevs(base, {a}) : a \in alts}

\* The arguments of the calls of concurrent callers: per operation the base
\* request, one that fails locally and one that changes the payload.
ConcRequests ==
    [o \in {"SendBasicEmail", "SendTemplatedEmail", "SendBulkEmails", "DeleteScheduledEmail",
            "GetScheduledEmails"} |->
        CASE o = "SendBasicEmail" ->
                OneDev(BasicBase, {<<"Subject", <<>>>>, <<"ReferenceID", Some(RefValid)>>})
          [] o = "SendTemplatedEmail" ->
                OneDev(TemplatedBase, {<<"TemplateData", Some(MapBlankKey)>>,
                                       <<"Tags", Some(MapOK)>>})
          [] o = "SendBulkEmails" ->
                OneDev(BulkBase, {<<"TemplateID", Some(2549)>>, <<"Messages", <<MsgRef, Msg>>>>})
          [] o = "DeleteScheduledEmail" -> OneDev(DeleteBase, {<<"ReferenceID", RefShort>>})
          [] o = "GetScheduledEmails" ->
                OneDev(GetBase, {<<"perPage", MaxPerPage + 1>>, <<"page", 2>>})]

RandSources == {[secure |-> TRUE, seed |-> 7], [secure |-> FALSE, seed |-> 200]}

InitAPIKeys == {<<107, 49>>, <<>>, <<32>>}
InitTimeouts == {0, 30}

\* The data of the provider's envelope: absent, or present.
EnvelopeData(o) ==
    CASE o \in {"SendBasicEmail", "SendTemplatedEmail"} -> {<<>>, RefServer}
      [] o = "SendBulkEmails" -> {<<>>, <<RefServer, RefServer2>>}
      [] o = "DeleteScheduledEmail" -> {Nil}
      [] o = "GetScheduledEmails" ->
            {Nil, Some([page |-> 1, per_page |-> 10, total_count |-> 0, total_pages |-> 0,
                        results |-> <<>>])}

\* The provider's answers: the transport fails, the body cannot be read or
\* is no JSON envelope, or an envelope arrives: of success, with or without
\* data, or of failure, bare or with a message.
Responses(o) ==
    {[kind |-> "transport_error"], [kind |-> "read_error"], [kind |-> "not_json"]}
    \cup {[kind |-> "envelope", success |-> TRUE, message |-> "", data |-> d] :
            d \in EnvelopeData(o)}
    \cup {[kind |-> "envelope", success |-> FALSE, message |-> "", data |-> Nil]}
    \cup {[kind |-> "envelope", success |-> FALSE, message |-> "Invalid API key", data |-> d] :
            d \in EnvelopeData(o)}

\* The arguments of the attachment constructors.
CtorNames == {<<97, 46, 116, 120, 116>>, <<32>>}
CtorTypes == {<<>>, <<116, 47, 112>>}
CtorInline == {FALSE, TRUE}
\* No byte, one binary byte, "hi", "hi!" and "hi!?".
CtorBytes == {<<>>, <<0>>, <<104, 105>>, <<104, 105, 33>>, <<104, 105, 33, 63>>}
\* "aGk=", "", "!!", "aGk", a line feed, "aGk=" and a line feed, "aA==",
\* "a===" and "=aGk".
CtorTexts ==
    {<<97, 71, 107, 61>>, <<>>, <<33, 33>>, <<97, 71, 107>>, <<10>>, <<97, 71, 107, 61>> \o <<10>>, <<97, 65, 61, 61>>, <<97, 61, 61, 61>>, <<61, 97, 71, 107>>}
CtorReaders ==
    {[kind |-> "nil"], [kind |-> "error"]} \cup {[kind |-> "data", data |-> b] : b \in CtorBytes}

\* The file system: "/d" is a directory, "/u" cannot be read, "/f/a.png"
\* holds "hi", "/f/e.txt" is empty, "/f/n" holds one binary byte, "/f/ " is
\* a file whose name is a space, and there is nothing at "/x", "" and " ".
FileSystem ==
    (<<47, 100>> :> [kind |-> "dir"])
    @@ (<<47, 117>> :> [kind |-> "unreadable"])
    @@ (<<47, 102, 47, 97, 46, 112, 110, 103>> :> [kind |-> "file", data |-> <<104, 105>>])
    @@ (<<47, 102, 47, 101, 46, 116, 120, 116>> :> [kind |-> "file", data |-> <<>>])
    @@ (<<47, 102, 47, 110>> :> [kind |-> "file", data |-> <<0>>])
    @@ (<<47, 102, 47, 32>> :> [kind |-> "file", data |-> <<104, 105>>])
    @@ (<<47, 120>> :> [kind |-> "none"])
    @@ (<<>> :> [kind |-> "none"])
    @@ (<<32>> :> [kind |-> "none"])

\* ------------------------------------------------------------ state machine

Callers == {1, 2}

VARIABLES
    client,   \* the Client: its APIKey and Timeout
    pc,       \* per caller: "idle", "inflight" (blocked in http.Client.Do), "done"
    op,       \* per caller: the operation it called
    input,    \* per caller: the argument of the call
    rnd,      \* per caller: the randomness the call draws its reference ids from
    req,      \* per caller: the request the call handed to the transport, or Nil
    nreq,     \* per caller: how many times the call invoked http.Client.Do
    resp,     \* per caller: the provider's answer to the call, or Nil
    result,   \* per caller: what the call returned, or Nil
    calls,    \* per caller: how many calls it has made
    failed,   \* whether a call on the client has returned an error
    fresh,    \* the client as NewClient returned it
    built     \* the constructor call made, its arguments and what it returned, or Nil

vars == <<client, pc, op, input, rnd, req, nreq, resp, result, calls, failed, fresh, built>>

Init ==
    /\ client \in {Deref(NewClient(k, t).client) :
                     k \in {x \in InitAPIKeys : \E t \in InitTimeouts : NewClient(x, t).err = OK},
                     t \in {y \in InitTimeouts : \E k \in InitAPIKeys : NewClient(k, y).err = OK}}
    /\ pc = [c \in Callers |-> "idle"]
    /\ op = [c \in Callers |-> "none"]
    /\ input = [c \in Callers |-> Nil]
    /\ rnd = [c \in Callers |-> Nil]
    /\ req = [c \in Callers |-> Nil]
    /\ nreq = [c \in Callers |-> 0]
    /\ resp = [c \in Callers |-> Nil]
    /\ result = [c \in Callers |-> Nil]
    /\ calls = [c \in Callers |-> 0]
    /\ failed = FALSE
    /\ fresh = client
    /\ built = Nil

\* A variant that keeps the request of a call in one place for all callers.
StoreRequestShared(reqs, c, r) == [x \in DOMAIN reqs |-> r]

\* The payload and the request of a call are locals of that call.
StoreRequest(reqs, c, r) == [reqs EXCEPT ![c] = r]

\* Caller c is free to make a call: MaxCalls bounds the calls of a run.
CanCall(c) == pc[c] = "idle" /\ calls[1] + calls[2] < MaxCalls

\* Caller c calls operation o with argument data: the handler runs to its
\* early return, or to http.Client.Do, where it blocks.
Begin(c, o, data, r, out) ==
    /\ pc' = [pc EXCEPT ![c] = IF out.err = OK THEN "inflight" ELSE "done"]
    /\ op' = [op EXCEPT ![c] = o]
    /\ input' = [input EXCEPT ![c] = data]
    /\ rnd' = [rnd EXCEPT ![c] = r]
    /\ req' = StoreRequest(req, c, out.req)
    /\ nreq' = [nreq EXCEPT ![c] = out.sent]
    /\ resp' = [resp EXCEPT ![c] = Nil]
    /\ result' = [result EXCEPT ![c] = IF out.err = OK THEN Nil
                                       ELSE Result(out.err, out.index, "", ZeroData(o))]
    /\ calls' = [calls EXCEPT ![c] = @ + 1]
    /\ failed' = (failed \/ out.err # OK)
    /\ UNCHANGED <<client, fresh, built>>

\* The five operations; R gives the arguments the callers choose from.
SendBasicEmail(c, R) ==
    /\ CanCall(c)
    /\ \E data \in R["SendBasicEmail"], r \in RandSources :
        \E out \in SendBasicEmailCall(client, data, r) : Begin(c, "SendBasicEmail", data, r, out)

SendTemplatedEmail(c, R) ==
    /\ CanCall(c)
    /\ \E data \in R["SendTemplatedEmail"], r \in RandSources :
        \E out \in SendTemplatedEmailCall(client, data, r) :
            Begin(c, "SendTemplatedEmail", data, r, out)

SendBulkEmails(c, R) ==
    /\ CanCall(c)
    /\ \E data \in R["SendBulkEmails"], r \in RandSources :
        \E out \in SendBulkEmailsCall(client, data, r) : Begin(c, "SendBulkEmails", data, r, out)

DeleteScheduledEmail(c, R) ==
    /\ CanCall(c)
    /\ \E data \in R["DeleteScheduledEmail"], r \in RandSources :
        \E out \in DeleteScheduledEmailCall(client, data, r) :
            Begin(c, "DeleteScheduledEmail", data, r, out)

GetScheduledEmails(c, R) ==
    /\ CanCall(c)
    /\ \E data \in R["GetScheduledEmails"], r \in RandSources :
        \E out \in GetScheduledEmailsCall(client, data, r) :
            Begin(c, "GetScheduledEmails", data, r, out)

\* A variant that sends the request again when the transport fails.
ReceiveWithRetry(c) ==
    /\ pc[c] = "inflight"
    /\ \E r \in Responses(op[c]) :
        /\ resp' = [resp EXCEPT ![c] = Some(r)]
        /\ result' = [result EXCEPT ![c] = Return(op[c], r)]
        /\ nreq' = [nreq EXCEPT ![c] = IF r.kind = "transport_error" THEN @ + 1 ELSE @]
        /\ failed' = (failed \/ Return(op[c], r).err # OK)
    /\ pc' = [pc EXCEPT ![c] = "done"]
    /\ UNCHANGED <<client, op, input, rnd, req, calls, fresh, built>>

\* A variant that forgets the API key when the provider rejects a call.
ReceiveDropsKey(c) ==
    /\ pc[c] = "inflight"
    /\ \E r \in Responses(op[c]) :
        /\ resp' = [resp EXCEPT ![c] = Some(r)]
        /\ result' = [result EXCEPT ![c] = Return(op[c], r)]
        /\ client' = IF Return(op[c], r).err = ErrAPI THEN [client EXCEPT !.APIKey = <<>>]
                     ELSE client
        /\ failed' = (failed \/ Return(op[c], r).err # OK)
    /\ pc' = [pc EXCEPT ![c] = "done"]
    /\ UNCHANGED <<op, input, rnd, req, nreq, calls, fresh, built>>

\* http.Client.Do returns to the call of caller c, and the handler returns.
Receive(c) ==
    /\ pc[c] = "inflight"
    /\ \E r \in Responses(op[c]) :
        /\ resp' = [resp EXCEPT ![c] = Some(r)]
        /\ result' = [result EXCEPT ![c] = Return(op[c], r)]
        /\ failed' = (failed \/ Return(op[c], r).err # OK)
    /\ pc' = [pc EXCEPT ![c] = "done"]
    /\ UNCHANGED <<client, op, input, rnd, req, nreq, calls, fresh, built>>

\* Caller c has the result of its call and is free to call again.
Finish(c) ==
    /\ pc[c] = "done"
    /\ pc' = [pc EXCEPT ![c] = "idle"]
    /\ op' = [op EXCEPT ![c] = "none"]
    /\ input' = [input EXCEPT ![c] = Nil]
    /\ rnd' = [rnd EXCEPT ![c] = Nil]
    /\ req' = [req EXCEPT ![c] = Nil]
    /\ nreq' = [nreq EXCEPT ![c] = 0]
    /\ resp' = [resp EXCEPT ![c] = Nil]
    /\ result' = [result EXCEPT ![c] = Nil]
    /\ UNCHANGED <<client, calls, failed, fresh, built>>

\* No constructor has been called and no request made.
CanConstruct == IsNil(built) /\ \A c \in Callers : pc[c] = "idle" /\ calls[c] = 0

\* A constructor has been called with arguments args and returned out.
Construct(ctor, args, out) ==
    /\ built' = Some([ctor |-> ctor, args |-> args, out |-> out])
    /\ UNCHANGED <<client, pc, op, input, rnd, req, nreq, resp, result, calls, failed, fresh>>

\* The five constructors of an attachment.
BuildNewAttachment ==
    /\ CanConstruct
    /\ \E f \in CtorNames, t \in CtorTexts, ct \in CtorTypes, i \in CtorInline :
        Construct("NewAttachment",
                  [fileName |-> f, contentB64 |-> t, contentType |-> ct, inline |-> i],
                  NewAttachment(f, t, ct, i))

BuildFromContent ==
    /\ CanConstruct
    /\ \E f \in CtorNames, b \in CtorBytes, ct \in CtorTypes, i \in CtorInline :
        Construct("AttachmentFromContent",
                  [fileName |-> f, content |-> b, contentType |-> ct, inline |-> i],
                  AttachmentFromContent(f, b, ct, i))

BuildFromBase64Content ==
    /\ CanConstruct
    /\ \E f \in CtorNames, t \in CtorTexts, ct \in CtorTypes, i \in CtorInline :
        Construct("AttachmentFromBase64Content",
                  [fileName |-> f, contentB64 |-> t, contentType |-> ct, inline |-> i],
                  AttachmentFromBase64Content(f, t, ct, i))

BuildFromStream ==
    /\ CanConstruct
    /\ \E f \in CtorNames, r \in CtorReaders, ct \in CtorTypes, i \in CtorInline :
        Construct("AttachmentFromStream",
                  [fileName |-> f, r |-> r, contentType |-> ct, inline |-> i],
                  AttachmentFromStream(f, r, ct, i))

BuildFromFile ==
    /\ CanConstruct
    /\ \E path \in DOMAIN FileSystem, ct \in CtorTypes, i \in CtorInline :
        Construct("AttachmentFromFile",
                  [path |-> path, contentType |-> ct, inline |-> i],
                  AttachmentFromFile(FileSystem, path, ct, i))

\* The request of operation o that carries the attachment a alone.
WithAttachment(o, a) ==
    CASE o = "SendBasicEmail" -> [BasicBase EXCEPT !.Attachments = <<a>>]
      [] o = "SendTemplatedEmail" -> [TemplatedBase EXCEPT !.Attachments = <<a>>]
      [] o = "SendBulkEmails" -> [BulkBase EXCEPT !.Attachments = <<a>>]

\* Caller c sends the attachment a constructor returned.
SendBuilt(c) ==
    /\ CanCall(c)
    /\ ~IsNil(built)
    /\ Deref(built).out.err = OK
    /\ \E o \in SendOps, r \in RandSources :
        \E out \in Call(o, client, WithAttachment(o, Deref(Deref(built).out.att)), r) :
            Begin(c, o, WithAttachment(o, Deref(Deref(built).out.att)), r, out)

\* ------------------------------------------- associative maps on their own

\* Keys: "", " ", "tag1", 128 and 129 runes of two bytes each.
AssocKeys ==
    {<<>>, <<32>>, Str_Key,
     [i \in 1..MaxAssociativeMapKeyLength |-> 233],
     [i \in 1..(MaxAssociativeMapKeyLength + 1) |-> 233]}

\* Values: strings of 6, 768 and 769 runes, the booleans, numbers of accepted
\* types, a NaN, an int16, and the nested structures.
AssocValues ==
    <<StrVal(Str_Value),
      StrVal([i \in 1..MaxAssociativeMapValueLength |-> 233]),
      StrVal([i \in 1..(MaxAssociativeMapValueLength + 1) |-> 233]),
      [t |-> "bool", v |-> TRUE], [t |-> "bool", v |-> FALSE],
      [t |-> "int", v |-> 7], [t |-> "int64", v |-> -12], NaNVal,
      [t |-> "int16", v |-> 7], MapVal, [t |-> "slice"]>>

\* Maps of two entries of which at most one is good.
AssocPairs ==
    <<MapTwoBad, MapOK @@ (<<32>> :> StrVal(Str_Value)), MapOK @@ (<<107>> :> MapVal)>>

AssocLabels == {"tags", "headers"}

\* validateAssociativeMap(m, label) has been called and returned err.
Validated(m, label) ==
    \E e \in validateAssociativeMap(m, label) :
        Construct("validateAssociativeMap", [m |-> m, label |-> label], [err |-> e])

\* A map of one entry, or one of the maps of two entries, is validated.
ValidateMap ==
    /\ CanConstruct
    /\ \E label \in AssocLabels :
        \/ \E k \in AssocKeys, i \in DOMAIN AssocValues : Validated(k :> AssocValues[i], label)
        \/ \E i \in DOMAIN AssocPairs : Validated(AssocPairs[i], label)

\* The request of operation o that carries the map m as its tags or headers.
WithMap(o, label, m) ==
    LET base == CASE o = "SendBasicEmail" -> BasicBase
                  [] o = "SendTemplatedEmail" -> TemplatedBase
                  [] o = "SendBulkEmails" -> BulkBase
    IN  IF label = "tags" THEN [base EXCEPT !.Tags = Some(m)]
        ELSE [base EXCEPT !.Headers = Some(m)]

\* Caller c sends the map that was validated, as the tags or the headers.
SendValidated(c) ==
    /\ CanCall(c)
    /\ ~IsNil(built)
    /\ Deref(built).ctor = "validateAssociativeMap"
    /\ \E o \in SendOps, r \in RandSources :
        \E out \in Call(o, client, WithMap(o, Deref(built).args.label, Deref(built).args.m), r) :
            Begin(c, o, WithMap(o, Deref(built).args.label, Deref(built).args.m), r, out)

Step(c, R) ==
    \/ SendBasicEmail(c, R)
    \/ SendTemplatedEmail(c, R)
    \/ SendBulkEmails(c, R)
    \/ DeleteScheduledEmail(c, R)
    \/ GetScheduledEmails(c, R)
    \/ Receive(c)
    \/ Finish(c)

\* One caller, one call after the other.
Next == Step(1, AllRequests)

Spec == Init /\ [][Next]_vars

\* An attachment is constructed and then sent by one caller.
AttNext ==
    \/ BuildNewAttachment
    \/ BuildFromContent
    \/ BuildFromBase64Content
    \/ BuildFromStream
    \/ BuildFromFile
    \/ SendBuilt(1)
    \/ Receive(1)
    \/ Finish(1)

AttSpec == Init /\ [][AttNext]_vars

\* A map is validated on its own and then sent as tags or headers.
MapNext ==
    \/ ValidateMap
    \/ SendValidated(1)
    \/ Receive(1)
    \/ Finish(1)

MapSpec == Init /\ [][MapNext]_vars

\* Two callers on the same client, their calls interleaved.
ConcNext == \E c \in Callers : Step(c, ConcRequests)

ConcSpec == Init /\ [][ConcNext]_vars

\* ------------------------------------------------------------------- claims

\* The errors of the local validation of the arguments.
ValidationErrors ==
    {ErrSubject, ErrToRequired, ErrBodyRequired, ErrBulkBodyRequired, ErrBulkConflict,
     ErrMessagesEmpty, ErrMessagesTooMany, ErrMessageTo, ErrRefWhitespace, ErrRefFormat,
     ErrTagsKeyEmpty, ErrTagsKeyLong, ErrTagsValueType, ErrTagsValueLong,
     ErrHeadersKeyEmpty, ErrHeadersKeyLong, ErrHeadersValueType, ErrHeadersValueLong,
     ErrTemplateDataKey, ErrAttName, ErrAttContent, ErrAttType,
     ErrPage, ErrPerPage, ErrPerPageMax}

\* The errors of building the request once validation has passed.
BuildErrors == {ErrEncode, ErrNewRequest}

Active(c) == pc[c] # "idle"

\* The call of caller c has returned an error without a response.
FailedLocally(c) == pc[c] = "done" /\ IsNil(resp[c])

\* The request of the call of caller c is on the network: the call is blocked
\* in http.Client.Do.
OnWire(c) == pc[c] = "inflight"

Body(c) == Deref(Deref(req[c]).body)

\* C1: when SendBasicEmail, SendTemplatedEmail, SendBulkEmails or
\* DeleteScheduledEmail fails with a local validation error, the call has
\* issued no HTTP request.
C1_ValidationBeforeNetwork ==
    \A c \in Callers :
        (/\ pc[c] = "done"
         /\ op[c] \in SendOps \cup {"DeleteScheduledEmail"}
         /\ result[c].err \in ValidationErrors)
        => nreq[c] = 0 /\ IsNil(req[c]) /\ IsNil(resp[c])

\* A bulk call with one message too many has failed, nothing sent.
C1_Witness ==
    \E c \in Callers :
        /\ pc[c] = "done"
        /\ op[c] = "SendBulkEmails"
        /\ result[c].err = ErrMessagesTooMany
        /\ nreq[c] = 0

\* C2 as stated: a call issues at most one HTTP request, and exactly one
\* whenever local validation passes.
C2_ExactlyOneWhenValid ==
    \A c \in Callers :
        Active(c) =>
            /\ nreq[c] <= 1
            /\ ~(FailedLocally(c) /\ result[c].err \in ValidationErrors) => nreq[c] = 1

\* C2, amended: a call issues at most one HTTP request, and exactly one when
\* local validation passes and the request is built (the body encodes as
\* JSON, the context is not nil); a transport failure, an undecodable
\* response or a success:false envelope is returned as an error with still
\* one request issued.
C2_AtMostOneRequest ==
    \A c \in Callers :
        Active(c) =>
            /\ nreq[c] <= 1
            /\ nreq[c] = 0 <=>
                  (FailedLocally(c) /\ result[c].err \in ValidationErrors \cup BuildErrors)
            /\ (pc[c] = "done" /\ ~IsNil(resp[c])
                /\ (Deref(resp[c]).kind # "envelope" \/ ~Deref(resp[c]).success))
               => result[c].err \in {ErrHTTP, ErrRead, ErrNotJSON, ErrAPI} /\ nreq[c] = 1

\* A call has returned the transport's failure after its one request.
C2_Witness ==
    \E c \in Callers :
        /\ pc[c] = "done"
        /\ result[c].err = ErrHTTP
        /\ nreq[c] = 1

\* What is seen of the call of caller c before the response: its error, the
\* failing message, its request and the number of requests.
Observed(c) ==
    Outcome(IF FailedLocally(c) THEN result[c].err ELSE OK,
            IF FailedLocally(c) THEN result[c].index ELSE -1,
            req[c], nreq[c])

\* The call of caller c went as the same call goes on client cl, alone.
AsAlone(c, cl) ==
    /\ Observed(c) \in Call(op[c], cl, input[c], rnd[c])
    /\ (pc[c] = "done" /\ ~IsNil(resp[c])) => result[c] = Return(op[c], Deref(resp[c]))

\* C3: whatever calls went before, the client's configuration is the one
\* it was constructed with, and every call goes as it does on a fresh
\* client of that configuration: up to the response its error and its
\* request are those of the call on the fresh client, and its result is the
\* one the response gives.
C3_ClientUnchanged ==
    /\ client = fresh
    /\ \A c \in Callers :
          /\ (Active(c) /\ IsNil(resp[c])) =>
                Observed(c) \in Call(op[c], fresh, input[c], rnd[c])
          /\ (pc[c] = "done" /\ ~IsNil(resp[c])) =>
                result[c] = Return(op[c], Deref(resp[c]))

\* A call has succeeded after an earlier call on the client failed.
C3_Witness ==
    \E c \in Callers :
        /\ calls[c] = 2
        /\ failed
        /\ pc[c] = "done"
        /\ result[c].err = OK

\* C4: under every interleaving of two callers, the request and the outcome
\* of each call are those of that call run alone.
C4_CallsIndependent == \A c \in Callers : Active(c) => AsAlone(c, client)

\* Two calls with different requests are in flight at the same time.
C4_Witness ==
    /\ pc[1] = "inflight"
    /\ pc[2] = "inflight"
    /\ req[1] # req[2]

\* A subject that is not blank and has at most MaxSubjectLength code points.
SubjectAccepted(s) ==
    /\ \E i \in 1..Len(s) : ~IsSpace(s[i])
    /\ Len(s) <= MaxSubjectLength

\* C5: every request of the three sending operations carries a subject
\* that is not blank and has at most 255 code points, and a recipient in
\* to (bulk: in the to of every message); a call fails with the subject
\* error exactly when its subject is blank or longer than 255 code points.
C5_SubjectAndRecipient ==
    \A c \in Callers :
        (Active(c) /\ op[c] \in SendOps) =>
            /\ OnWire(c) =>
                /\ SubjectAccepted(Body(c)["subject"])
                /\ op[c] # "SendBulkEmails" => Len(Body(c)["to"]) >= 1
                /\ op[c] = "SendBulkEmails" =>
                      \A i \in 1..Len(Body(c)["messages"]) :
                          Len(Body(c)["messages"][i]["to"]) >= 1
            /\ (FailedLocally(c) /\ result[c].err = ErrSubject)
                  <=> ~SubjectAccepted(input[c].Subject)

\* A request is on the wire whose subject has 255 code points and more bytes.
C5_Witness ==
    \E c \in Callers :
        /\ OnWire(c)
        /\ op[c] \in SendOps
        /\ Len(Body(c)["subject"]) = MaxSubjectLength
        /\ Utf8Len(Body(c)["subject"]) > MaxSubjectLength

\* C6: SendBulkEmails fails locally without html, plain and template id,
\* and with a template id beside html or plain; a bulk request on the wire
\* carries html and/or plain, or a template id, never both.
C6_BulkBodyMode ==
    \A c \in Callers :
        (Active(c) /\ op[c] = "SendBulkEmails") =>
            LET html == ~IsNil(input[c].HTML)
                plain == ~IsNil(input[c].Plain)
                template == ~IsNil(input[c].TemplateID)
            IN  /\ (~html /\ ~plain /\ ~template) =>
                      FailedLocally(c) /\ result[c].err \in ValidationErrors /\ nreq[c] = 0
                /\ (template /\ (html \/ plain)) =>
                      FailedLocally(c) /\ result[c].err \in ValidationErrors /\ nreq[c] = 0
                /\ OnWire(c) =>
                      ({"html", "plain"} \cap DOMAIN Body(c) # {})
                          <=> ~("template_id" \in DOMAIN Body(c))

\* A bulk request with a template id and no body is on the wire.
C6_Witness ==
    \E c \in Callers :
        /\ OnWire(c)
        /\ op[c] = "SendBulkEmails"
        /\ "template_id" \in DOMAIN Body(c)
        /\ "html" \notin DOMAIN Body(c)

\* C7: SendBulkEmails fails locally with 0 and with more than 500 messages,
\* 1 to 500 messages pass the count check, and the messages of a bulk
\* request on the wire are those of the input, as many and in its order.
C7_BulkMessageCount ==
    \A c \in Callers :
        (Active(c) /\ op[c] = "SendBulkEmails") =>
            LET n == Len(input[c].Messages)
            IN  /\ (n = 0 \/ n > maxBulkMessages) =>
                      FailedLocally(c) /\ result[c].err \in ValidationErrors /\ nreq[c] = 0
                /\ (n >= 1 /\ n <= maxBulkMessages) =>
                      ~(FailedLocally(c)
                        /\ result[c].err \in {ErrMessagesEmpty, ErrMessagesTooMany})
                /\ OnWire(c) =>
                      /\ Len(Body(c)["messages"]) = n
                      /\ \A i \in 1..n :
                            /\ Body(c)["messages"][i]["from"]["address"]
                                  = input[c].Messages[i].From.Address
                            /\ Len(Body(c)["messages"][i]["to"]) = Len(input[c].Messages[i].To)
                            /\ \A j \in 1..Len(input[c].Messages[i].To) :
                                  Body(c)["messages"][i]["to"][j]["address"]
                                      = input[c].Messages[i].To[j].Address

\* A bulk request of 500 messages is on the wire.
C7_Witness ==
    \E c \in Callers :
        /\ OnWire(c)
        /\ op[c] = "SendBulkEmails"
        /\ Len(input[c].Messages) = maxBulkMessages
        /\ Len(Body(c)["messages"]) = maxBulkMessages

\* C8: a SendTemplatedEmail call whose TemplateID was left at its unset
\* value fails locally and nothing is sent.
C8_TemplateIDRequired ==
    \A c \in Callers :
        (Active(c) /\ op[c] = "SendTemplatedEmail" /\ input[c].TemplateID = 0) =>
            FailedLocally(c) /\ nreq[c] = 0

\* C9 as stated: SendBasicEmail without html and plain fails with the
\* body-required error and sends nothing; a basic request on the wire has
\* html or plain set.
C9_BodyRequiredError ==
    \A c \in Callers :
        (Active(c) /\ op[c] = "SendBasicEmail") =>
            /\ (IsNil(input[c].HTML) /\ IsNil(input[c].Plain)) =>
                  FailedLocally(c) /\ result[c].err = ErrBodyRequired /\ nreq[c] = 0
            /\ OnWire(c) => (~IsNil(Body(c)["html"]) \/ ~IsNil(Body(c)["plain"]))

\* C9, amended: SendBasicEmail without html and plain fails and sends
\* nothing; its error is the body-required error when the base payload
\* builds, and the error of the base payload, which is built first,
\* otherwise. A basic request on the wire has html or plain set.
C9_BodyRequired ==
    \A c \in Callers :
        (Active(c) /\ op[c] = "SendBasicEmail") =>
            /\ (IsNil(input[c].HTML) /\ IsNil(input[c].Plain)) =>
                  /\ FailedLocally(c)
                  /\ nreq[c] = 0
                  /\ \E b \in buildBasePayload(BasePayload(input[c]), rnd[c]) :
                        result[c].err = IF b.err = OK THEN ErrBodyRequired ELSE b.err
            /\ OnWire(c) => (~IsNil(Body(c)["html"]) \/ ~IsNil(Body(c)["plain"]))

\* A basic call without a body has failed with the body-required error.
C9_Witness ==
    \E c \in Callers :
        /\ pc[c] = "done"
        /\ op[c] = "SendBasicEmail"
        /\ IsNil(input[c].HTML) /\ IsNil(input[c].Plain)
        /\ result[c].err = ErrBodyRequired
        /\ nreq[c] = 0

\* ^[0-9a-fA-F]{24}$
IsHex24(s) ==
    /\ Len(s) = 24
    /\ \A i \in 1..Len(s) : s[i] \in (48..57) \cup (65..70) \cup (97..102)

\* The reference id item carries for the id p the caller supplied or left
\* unset: it matches the pattern and is the caller's when there is one.
RefIDSent(item, p) ==
    /\ IsHex24(item["reference_id"])
    /\ ~IsNil(p) => item["reference_id"] = Deref(p)

\* A supplied id that is not 24 hex digits, white space around it included.
RefIDBad(p) == ~IsNil(p) /\ ~IsHex24(Deref(p))

\* C10: every single-send payload and every bulk message on the wire has a
\* reference_id of 24 hex digits, the caller's verbatim when supplied and a
\* generated one otherwise (from crypto/rand or from the fallback); a call
\* with a supplied id that is not 24 hex digits fails locally.
C10_ReferenceID ==
    \A c \in Callers :
        /\ (Active(c) /\ op[c] \in {"SendBasicEmail", "SendTemplatedEmail"}) =>
              /\ OnWire(c) => RefIDSent(Body(c), input[c].ReferenceID)
              /\ RefIDBad(input[c].ReferenceID) =>
                    FailedLocally(c) /\ result[c].err \in ValidationErrors /\ nreq[c] = 0
        /\ (Active(c) /\ op[c] = "SendBulkEmails") =>
              /\ OnWire(c) =>
                    \A i \in 1..Len(input[c].Messages) :
                        RefIDSent(Body(c)["messages"][i], input[c].Messages[i].ReferenceID)
              /\ (\E i \in 1..Len(input[c].Messages) :
                      RefIDBad(input[c].Messages[i].ReferenceID)) =>
                    FailedLocally(c) /\ result[c].err \in ValidationErrors /\ nreq[c] = 0

\* A request is on the wire with an id generated on the fallback path.
C10_Witness ==
    \E c \in Callers :
        /\ OnWire(c)
        /\ op[c] = "SendBasicEmail"
        /\ IsNil(input[c].ReferenceID)
        /\ ~rnd[c].secure
        /\ IsHex24(Body(c)["reference_id"])

\* The call of caller c has returned after the provider's answer r.
Answered(c) == pc[c] = "done" /\ ~IsNil(resp[c])

\* The message an error of the provider carries: the envelope's, or "Unknown".
ProviderMessage(r) == IF r.message = "" THEN "Unknown" ELSE r.message

\* What the call returns when the provider accepts it: the envelope's data
\* (DeleteScheduledEmail returns no data).
ReturnedData(o, r) == IF o = "DeleteScheduledEmail" THEN Nil ELSE r.data

\* The call of caller c ended with the provider's error for the answer r.
RejectedWith(c, r) ==
    /\ result[c].err = ErrAPI
    /\ result[c].message = ProviderMessage(r)
    /\ result[c].data = ZeroData(op[c])

\* C11 as stated: for every operation a success:true envelope yields the
\* endpoint's data with no error; a network failure, an undecodable body or
\* success:false yields an error and no data, and for success:false the
\* error carries the provider's message, "Unknown" when it is empty.
C11_EnvelopeDecides ==
    \A c \in Callers :
        Answered(c) =>
            LET r == Deref(resp[c])
            IN  /\ (r.kind = "envelope" /\ r.success) =>
                      result[c].err = OK /\ result[c].data = ReturnedData(op[c], r)
                /\ r.kind # "envelope" =>
                      /\ result[c].err \in {ErrHTTP, ErrRead, ErrNotJSON}
                      /\ result[c].data = ZeroData(op[c])
                /\ (r.kind = "envelope" /\ ~r.success) => RejectedWith(c, r)

\* C11, amended: as stated for the sending operations and
\* DeleteScheduledEmail; GetScheduledEmails returns the data of a
\* success:true envelope only when the envelope has data, and treats a
\* success:true envelope without data like success:false: an error with the
\* provider's message, "Unknown" when it is empty, and no data.
C11_EnvelopeOutcome ==
    \A c \in Callers :
        Answered(c) =>
            LET r == Deref(resp[c])
                noData == op[c] = "GetScheduledEmails" /\ IsNil(r.data)
            IN  /\ (r.kind = "envelope" /\ r.success /\ ~noData) =>
                      result[c].err = OK /\ result[c].data = ReturnedData(op[c], r)
                /\ r.kind # "envelope" =>
                      /\ result[c].err \in {ErrHTTP, ErrRead, ErrNotJSON}
                      /\ result[c].data = ZeroData(op[c])
                /\ (r.kind = "envelope" /\ (~r.success \/ noData)) => RejectedWith(c, r)

\* GetScheduledEmails has returned the provider's error for a success:true
\* envelope without data.
C11_Witness ==
    \E c \in Callers :
        /\ Answered(c)
        /\ op[c] = "GetScheduledEmails"
        /\ Deref(resp[c]).kind = "envelope"
        /\ Deref(resp[c]).success
        /\ IsNil(Deref(resp[c]).data)
        /\ result[c].err = ErrAPI
        /\ result[c].message = "Unknown"

\* The wire form of address e: its address, and a display name exactly
\* when named(e).
WireAddress(item, e, named) ==
    /\ item["address"] = e.Address
    /\ "display_name" \in DOMAIN item <=> named
    /\ named => item["display_name"] = Deref(e.DisplayName)

\* The wire form of the list es, one item per address in its order.
WireAddresses(items, es, hasName) ==
    /\ Len(items) = Len(es)
    /\ \A i \in 1..Len(es) : WireAddress(items[i], es[i], hasName[i])

\* The keys of the payload b of the basic-email request d, the wire form
\* of its recipients apart.
BasicPayloadKeys(b, d) ==
    /\ {"subject", "from", "to", "html", "reference_id"} \subseteq DOMAIN b
    /\ b["subject"] = d.Subject
    /\ b["html"] = d.HTML
    /\ b["from"]["address"] = d.From.Address
    /\ "cc" \in DOMAIN b <=> Len(d.Cc) > 0
    /\ "bcc" \in DOMAIN b <=> Len(d.Bcc) > 0
    /\ "reply_to" \in DOMAIN b <=> Len(d.ReplyTo) > 0
    /\ "attachments" \in DOMAIN b <=> Len(d.Attachments) > 0
    /\ "attachments" \in DOMAIN b => b["attachments"] = d.Attachments
    /\ "tags" \in DOMAIN b <=> ~IsNil(d.Tags)
    /\ "tags" \in DOMAIN b => b["tags"] = Deref(d.Tags)
    /\ "headers" \in DOMAIN b <=> ~IsNil(d.Headers)
    /\ "headers" \in DOMAIN b => b["headers"] = Deref(d.Headers)
    /\ "tracking" \in DOMAIN b <=> ~IsNil(d.Tracking)
    /\ "tracking" \in DOMAIN b => b["tracking"] = Deref(d.Tracking)

\* C12 as stated: the payload of a basic-email request on the wire has
\* subject, from, to, html and reference_id, the optional keys exactly when
\* the caller gave them, and one object per recipient, with a display_name
\* only when the recipient's display name is not empty.
C12_PayloadShape ==
    \A c \in Callers :
        (OnWire(c) /\ op[c] = "SendBasicEmail") =>
            /\ BasicPayloadKeys(Body(c), input[c])
            /\ WireAddresses(Body(c)["to"], input[c].To,
                             [i \in 1..Len(input[c].To) |->
                                 /\ ~IsNil(input[c].To[i].DisplayName)
                                 /\ Deref(input[c].To[i].DisplayName) # <<>>])

\* C12, amended: as stated, but a recipient carries a display_name exactly
\* when its DisplayName pointer is set, an empty name included; NewEmail
\* leaves the pointer unset for a blank name.
C12_PayloadKeys ==
    /\ NewEmail(<<32, 101, 64, 102, 32>>, <<32, 9>>).DisplayName = Nil
    /\ \A c \in Callers :
        (OnWire(c) /\ op[c] = "SendBasicEmail") =>
            /\ BasicPayloadKeys(Body(c), input[c])
            /\ WireAddresses(Body(c)["to"], input[c].To,
                             [i \in 1..Len(input[c].To) |-> ~IsNil(input[c].To[i].DisplayName)])

\* A basic-email request is on the wire with a recipient whose display
\* name is set and empty.
C12_Witness ==
    \E c \in Callers :
        /\ OnWire(c)
        /\ op[c] = "SendBasicEmail"
        /\ \E i \in 1..Len(input[c].To) :
              /\ input[c].To[i].DisplayName = Some(<<>>)
              /\ "display_name" \in DOMAIN Body(c)["to"][i]

\* The number a run of decimal digits stands for.
RECURSIVE Atoi(_)
Atoi(s) == IF s = <<>> THEN 0 ELSE 10 * Atoi(SubSeq(s, 1, Len(s) - 1)) + (s[Len(s)] - 48)

\* The values of the parameters of the query q, "k=v" pairs joined by "&",
\* as a set of <<key, value>> pairs.
QueryParams(q) ==
    LET cuts == {0, Len(q) + 1} \cup {i \in 1..Len(q) : q[i] = 38}
        parts == {SubSeq(q, a + 1, b - 1) :
                    <<a, b>> \in {x \in cuts \X cuts :
                                    x[1] < x[2] /\ \A k \in cuts : ~(x[1] < k /\ k < x[2])}}
        eq(part) == SetMin({i \in 1..Len(part) : part[i] = 61})
    IN  {<<SubSeq(part, 1, eq(part) - 1), Atoi(SubSeq(part, eq(part) + 1, Len(part)))>> :
            part \in parts}

Ctor == Deref(built).ctor
CtorArgs == Deref(built).args
CtorOut == Deref(built).out
CtorBuilt == ~IsNil(built) /\ CtorOut.err = OK
CtorAtt == Deref(CtorOut.att)

\* The four constructors that take content, base64 text, a stream or a path.
ContentConstructors ==
    {"AttachmentFromContent", "AttachmentFromBase64Content", "AttachmentFromStream",
     "AttachmentFromFile"}

\* An attachment with a file name, a content type and content that is not
\* empty and decodes as base64.
ValidAttachment(a) ==
    /\ TrimSpace(a.FileName) # <<>>
    /\ TrimSpace(a.ContentType) # <<>>
    /\ a.Content # <<>>
    /\ StdDecodeStringOK(a.Content)

\* C14: each of the four constructors returns an error or a valid
\* attachment, empty content, an empty stream and an empty file included,
\* and a request that carries the attachment of a constructor never fails
\* the validation of its attachments.
C14_ConstructorsValid ==
    (CtorBuilt /\ Ctor \in ContentConstructors) =>
        /\ ValidAttachment(CtorAtt)
        /\ validate(CtorAtt) = OK
        /\ \A c \in Callers :
              Active(c) => ~(FailedLocally(c)
                             /\ result[c].err \in {ErrAttName, ErrAttContent, ErrAttType})

\* AttachmentFromBase64Content has been called.
FromBase64Called == ~IsNil(built) /\ Ctor = "AttachmentFromBase64Content"

\* C15 as stated: AttachmentFromBase64Content fails for every text that is
\* not valid base64, and for every text that is valid base64 it succeeds
\* and returns an attachment whose content is the text.
C15_Base64Preserved ==
    FromBase64Called =>
        /\ ~StdDecodeStringOK(CtorArgs.contentB64) => CtorOut.err # OK
        /\ StdDecodeStringOK(CtorArgs.contentB64) =>
              CtorOut.err = OK /\ CtorAtt.Content = CtorArgs.contentB64

\* C15, amended: AttachmentFromBase64Content fails with the base64 error
\* for every text that is not valid base64; it succeeds exactly when the
\* text is valid base64 and not blank and the file name is not blank, and
\* then the content of the attachment is the text, unchanged.
C15_Base64Content ==
    FromBase64Called =>
        /\ ~StdDecodeStringOK(CtorArgs.contentB64) => CtorOut.err = ErrCtorBase64
        /\ CtorOut.err = OK <=>
              /\ StdDecodeStringOK(CtorArgs.contentB64)
              /\ TrimSpace(CtorArgs.contentB64) # <<>>
              /\ TrimSpace(CtorArgs.fileName) # <<>>
        /\ CtorOut.err = OK => CtorAtt.Content = CtorArgs.contentB64

\* AttachmentFromBase64Content has returned an attachment for a text that
\* ends in a line feed, with the line feed in its content.
C15_Witness ==
    /\ FromBase64Called
    /\ CtorOut.err = OK
    /\ CtorArgs.contentB64[Len(CtorArgs.contentB64)] = 10
    /\ CtorAtt.Content = CtorArgs.contentB64

\* C16: a SendBasicEmail, SendTemplatedEmail or SendBulkEmails call with an
\* attachment that has an empty file name, an empty content type, empty
\* content or content that is not valid base64 fails locally and issues no
\* request.
C16_AttachmentsValidated ==
    \A c \in Callers :
        (/\ Active(c)
         /\ op[c] \in SendOps
         /\ \E i \in 1..Len(input[c].Attachments) : ~ValidAttachment(input[c].Attachments[i]))
        => FailedLocally(c) /\ nreq[c] = 0

\* ---------------------------------------------------------------- C17

\* validateAssociativeMap has been called on its own.
MapValidated == ~IsNil(built) /\ Ctor = "validateAssociativeMap"

\* The string form of a value of an accepted type.
StringOf(v) ==
    IF v.t = "string" THEN v.v
    ELSE IF v.t = "bool" THEN (IF v.v THEN <<116, 114, 117, 101>> ELSE <<102, 97, 108, 115, 101>>)
    ELSE IF v.t \in {"float32", "float64"} /\ v.nan THEN <<78, 97, 78>>
    ELSE Itoa(v.v)

\* Every numeric type of Go.
AnyNumericTypes ==
    NumericTypes \cup {"int8", "int16", "uint8", "uint16", "uintptr", "complex64", "complex128"}

\* The four errors validateAssociativeMap returns under a label.
LabelErrors(label) ==
    {AssocErr(label, kind) : kind \in {"key_empty", "key_long", "value_type", "value_long"}}

\* An entry as the claim words it: a key that is not "" and a number of any type.
EntryAsStated(k, v) ==
    /\ k # <<>>
    /\ Len(k) <= 128
    /\ v.t \in {"string", "bool"} \cup AnyNumericTypes
    /\ Len(StringOf(v)) <= 768

\* An entry the code accepts: a key with a character that is not white
\* space, and a number of one of the eight types of the type switch.
EntryAccepted(k, v) ==
    /\ \E i \in 1..Len(k) : ~IsSpace(k[i])
    /\ Len(k) <= 128
    /\ v.t \in {"string", "bool", "int", "int32", "int64", "uint", "uint32", "uint64",
                "float32", "float64"}
    /\ Len(StringOf(v)) <= 768

InvalidBulkMessage(m) ==
    \/ Len(m.To) = 0
    \/ ~IsNil(m.ReferenceID) /\ ~IsHex24(Deref(m.ReferenceID))
    \/ /\ ~IsNil(m.TemplateData)
       /\ \E k \in DOMAIN Deref(m.TemplateData) : \A i \in 1..Len(k) : IsSpace(k[i])

\* The positions of the invalid messages of the bulk call of caller c.
InvalidMessages(c) ==
    {i \in 1..Len(input[c].Messages) : InvalidBulkMessage(input[c].Messages[i])}

\* The errors normalizeBulkMessages returns for a message.
BulkMessageErrors == {ErrMessageTo, ErrRefWhitespace, ErrRefFormat, ErrTemplateDataKey}

\* C18: SendBulkEmails has no partial success: it returns either the
\* reference-id list of a success:true envelope, whole, with no error, or no
\* ids with an error; when some message fails validation the call fails
\* before any HTTP request, also when the messages before it were valid, and
\* a message error names the first invalid message.
C18_BulkAllOrNothing ==
    \A c \in Callers :
        op[c] = "SendBulkEmails" =>
            /\ pc[c] = "done" =>
                \/ /\ result[c].err = OK
                   /\ Answered(c)
                   /\ Deref(resp[c]).kind = "envelope"
                   /\ Deref(resp[c]).success
                   /\ result[c].data = Deref(resp[c]).data
                \/ /\ result[c].err # OK
                   /\ result[c].data = Nil
            /\ InvalidMessages(c) # {} =>
                /\ FailedLocally(c)
                /\ result[c].err # OK
                /\ result[c].data = Nil
                /\ nreq[c] = 0
                /\ IsNil(req[c])
                /\ result[c].err \in BulkMessageErrors =>
                    result[c].index = SetMin(InvalidMessages(c)) - 1

\* A bulk call whose first message is valid and whose second has no
\* recipient failed on message 1 without a request.
C18_Witness ==
    /\ op[1] = "SendBulkEmails"
    /\ FailedLocally(1)
    /\ Len(input[1].Messages) = 3
    /\ ~InvalidBulkMessage(input[1].Messages[1])
    /\ Len(input[1].Messages[2].To) = 0
    /\ result[1].err = ErrMessageTo
    /\ result[1].index = 1
    /\ nreq[1] = 0

\* ---------------------------------------------------------------- C19

\* The call of caller c is a single send the provider has answered.
SingleSendAnswered(c) ==
    Answered(c) /\ op[c] \in {"SendBasicEmail", "SendTemplatedEmail"}

\* The provider answered with a success:true envelope.
SuccessEnvelope(r) == r.kind = "envelope" /\ r.success

\* C19: the reference id a successful SendBasicEmail or SendTemplatedEmail
\* returns is the reference_id of the envelope's data, as it arrived: the
\* empty string with no error when success:true comes without data, and
\* whatever reference id, supplied or generated, the payload carried; a call
\* that fails returns the empty string, never the id of the request.
C19_ReturnedReferenceID ==
    \A c \in Callers :
        SingleSendAnswered(c) =>
            /\ IsHex24(Body(c)["reference_id"])
            /\ ~IsNil(input[c].ReferenceID) => Body(c)["reference_id"] = Deref(input[c].ReferenceID)
            /\ SuccessEnvelope(Deref(resp[c])) =>
                /\ result[c].err = OK
                /\ result[c].data = Deref(resp[c]).data
            /\ ~SuccessEnvelope(Deref(resp[c])) =>
                /\ result[c].err # OK
                /\ result[c].data = <<>>

\* A send that carried the caller's reference id returned the empty string
\* with no error: success:true arrived without data.
C19_Witness ==
    /\ SingleSendAnswered(1)
    /\ ~IsNil(input[1].ReferenceID)
    /\ Body(1)["reference_id"] = Deref(input[1].ReferenceID)
    /\ SuccessEnvelope(Deref(resp[1]))
    /\ Deref(resp[1]).data = <<>>
    /\ result[1].err = OK
    /\ result[1].data = <<>>

====
